---- MODULE Spec2Model ----
(***************************************************************************)
(* Model of the hybrid search index of native/searchdb-rs/src/lib.rs:      *)
(* the tokenizer, the BM25 inverted index, the dense vector store and the  *)
(* SearchIndex object that composes both behind one mutex.                 *)
(*                                                                         *)
(* Numbers.  Scores and vector components are f32/f64 in the source.  The  *)
(* model computes them exactly: a normalised component x / sqrt(sumsq) is  *)
(* the pair [n |-> x, sq |-> sumsq] of integers, and an inner product is   *)
(* compared through squares.  BM25 scores are fixed-point (micro units)    *)
(* with the natural logarithm tabulated for the arguments that occur.      *)
(***************************************************************************)
EXTENDS Integers, Sequences, FiniteSets, TLC

VARIABLES bm25, vectors, hist, lastOp, mutex, pc, req, seqL, seqV, obs

vars == <<bm25, vectors, hist, lastOp, mutex, pc, req, seqL, seqV, obs>>

(***************************************************************************)
(* Bounds of the model and the input sets drawn from them.                 *)
(***************************************************************************)
MaxVecLen == 2
MaxRows == 2
MaxTotalLen == 4

Ids == {"d1", "d2"}
VecVals == {1}

RECURSIVE SeqsUpTo(_, _)
SeqsUpTo(S, n) ==
  IF n = 0 THEN {<<>>}
  ELSE LET shorter == SeqsUpTo(S, n - 1)
       IN shorter \cup {Append(s, x) : s \in {t \in shorter : Len(t) = n - 1}, x \in S}

Vecs == SeqsUpTo(VecVals, MaxVecLen)
Texts ==
  {<<" ">>, <<"A">>, <<"_", "1">>, <<"a", " ", "A">>, <<"a", ",", "b">>}
FewTexts == {<<>>, <<"a">>, <<"B">>, <<"a", " ", "a">>}
FewVecs == {<<>>, <<1>>, <<0, 1>>}

\* Queries: texts, query vectors and values of k.
MaxK == 2
Queries == FewTexts \cup {<<"a", " ", "B">>, <<"A">>}
QueryVecs == FewVecs \cup {<<1, 1>>}
Ks == 0..MaxK

(***************************************************************************)
(* Hash maps are functions with a finite domain.                           *)
(***************************************************************************)
EmptyMap == [x \in {} |-> 0]
MapPut(f, k, v) == [x \in (DOMAIN f) \cup {k} |-> IF x = k THEN v ELSE f[x]]
MapDel(f, k) == [x \in (DOMAIN f) \ {k} |-> f[x]]
Range(s) == {s[i] : i \in DOMAIN s}
Max(a, b) == IF a >= b THEN a ELSE b

RECURSIVE SumOver(_, _)
SumOver(f, S) ==
  IF S = {} THEN 0
  ELSE LET x == CHOOSE y \in S : TRUE IN f[x] + SumOver(f, S \ {x})

(***************************************************************************)
(* tokenize (lib.rs 5-23)                                                  *)
(***************************************************************************)
UpperBytes == <<"A","B","C","D","E","F","G","H","I","J","K","L","M",
                "N","O","P","Q","R","S","T","U","V","W","X","Y","Z">>
LowerBytes == <<"a","b","c","d","e","f","g","h","i","j","k","l","m",
                "n","o","p","q","r","s","t","u","v","w","x","y","z">>
DigitBytes == {"0","1","2","3","4","5","6","7","8","9"}

\* ASCII upper case to lower case, every other byte unchanged.
LowerOf ==
  [b \in Range(UpperBytes) |->
     LowerBytes[CHOOSE j \in DOMAIN UpperBytes : UpperBytes[j] = b]]

to_lowercase(s) ==
  [i \in DOMAIN s |-> IF s[i] \in DOMAIN LowerOf THEN LowerOf[s[i]] ELSE s[i]]

\* Line 11.
WordBytes == Range(LowerBytes) \cup DigitBytes \cup {"_"}
is_word(b) == b \in WordBytes

\* The loop of lines 10-18 from byte i (1-based) on, then lines 19-21.
\* start = 0 stands for the source's -1 (no open run).
RECURSIVE TokenizeFrom(_, _, _, _)
TokenizeFrom(bytes, i, start, out) ==
  IF i > Len(bytes)
  THEN IF start > 0 THEN Append(out, SubSeq(bytes, start, Len(bytes))) ELSE out
  ELSE IF is_word(bytes[i])
       THEN TokenizeFrom(bytes, i + 1, IF start = 0 THEN i ELSE start, out)
       ELSE IF start > 0
            THEN TokenizeFrom(bytes, i + 1, 0, Append(out, SubSeq(bytes, start, i - 1)))
            ELSE TokenizeFrom(bytes, i + 1, 0, out)

tokenize(s) == TokenizeFrom(to_lowercase(s), 1, 0, <<>>)

(***************************************************************************)
(* BM25Index (lib.rs 35-127)                                               *)
(***************************************************************************)
BM25New ==
  [postings |-> EmptyMap, doc_len |-> EmptyMap, doc_terms |-> EmptyMap,
   total_len |-> 0, docs |-> {}]

\* tf_map of lines 62-63: term -> number of occurrences.
TfMap(terms) ==
  [t \in Range(terms) |-> Cardinality({i \in DOMAIN terms : terms[i] = t})]

\* Lines 65-68: insert doc_id -> tf into postings[term] for every term of tf_map.
RECURSIVE InsertPostings(_, _, _, _)
InsertPostings(postings, doc_id, tf_map, todo) ==
  IF todo = {} THEN postings
  ELSE LET term == CHOOSE t \in todo : TRUE
           post == IF term \in DOMAIN postings THEN postings[term] ELSE EmptyMap
       IN InsertPostings(MapPut(postings, term, MapPut(post, doc_id, tf_map[term])),
                         doc_id, tf_map, todo \ {term})

\* Faulty variant of BM25Add: no early return for a text without terms.
BM25Add_NoEarlyReturn(L, doc_id, text) ==
  LET terms == tokenize(text)
      tf_map == TfMap(terms)
  IN [postings |-> InsertPostings(L.postings, doc_id, tf_map, DOMAIN tf_map),
      doc_len |-> MapPut(L.doc_len, doc_id, Len(terms)),
      doc_terms |-> MapPut(L.doc_terms, doc_id, DOMAIN tf_map),
      total_len |-> L.total_len + Len(terms),
      docs |-> L.docs \cup {doc_id}]

\* Faulty variant of BM25Add: total_len counts one per document.
BM25Add_CountsOne(L, doc_id, text) ==
  LET terms == tokenize(text)
      len == Len(terms)
      tf_map == TfMap(terms)
  IN IF len = 0 THEN L
     ELSE [postings |-> InsertPostings(L.postings, doc_id, tf_map, DOMAIN tf_map),
           doc_len |-> MapPut(L.doc_len, doc_id, len),
           doc_terms |-> MapPut(L.doc_terms, doc_id, DOMAIN tf_map),
           total_len |-> L.total_len + 1,
           docs |-> L.docs \cup {doc_id}]

\* Faulty variant of BM25Add: total_len is left as it was.
BM25Add_NoTotal(L, doc_id, text) ==
  LET terms == tokenize(text)
      len == Len(terms)
      tf_map == TfMap(terms)
  IN IF len = 0 THEN L
     ELSE [postings |-> InsertPostings(L.postings, doc_id, tf_map, DOMAIN tf_map),
           doc_len |-> MapPut(L.doc_len, doc_id, len),
           doc_terms |-> MapPut(L.doc_terms, doc_id, DOMAIN tf_map),
           total_len |-> L.total_len,
           docs |-> L.docs \cup {doc_id}]

BM25Add(L, doc_id, text) ==
  LET terms == tokenize(text)
      len == Len(terms)
      tf_map == TfMap(terms)
  IN IF len = 0 THEN L
     ELSE [postings |-> InsertPostings(L.postings, doc_id, tf_map, DOMAIN tf_map),
           doc_len |-> MapPut(L.doc_len, doc_id, len),
           doc_terms |-> MapPut(L.doc_terms, doc_id, DOMAIN tf_map),
           total_len |-> L.total_len + len,
           docs |-> L.docs \cup {doc_id}]

\* Lines 78-83: drop doc_id from the posting list of each term of the document,
\* and drop the term when its list becomes empty.
RECURSIVE RemovePostings(_, _, _)
RemovePostings(postings, doc_id, todo) ==
  IF todo = {} THEN postings
  ELSE LET term == CHOOSE t \in todo : TRUE
           rest == todo \ {term}
       IN IF term \in DOMAIN postings
          THEN LET post == MapDel(postings[term], doc_id)
               IN IF DOMAIN post = {}
                  THEN RemovePostings(MapDel(postings, term), doc_id, rest)
                  ELSE RemovePostings(MapPut(postings, term, post), doc_id, rest)
          ELSE RemovePostings(postings, doc_id, rest)

\* Line 85: without doc_terms, drop doc_id from every posting list (lists
\* that become empty stay).
ScrubPostings(postings, doc_id) ==
  [t \in DOMAIN postings |-> MapDel(postings[t], doc_id)]

saturating_sub(a, b) == IF a >= b THEN a - b ELSE 0

\* Faulty variant of BM25Remove: posting lists that become empty stay.
BM25Remove_KeepEmpty(L, doc_id) ==
  IF doc_id \notin L.docs THEN L
  ELSE [postings |-> ScrubPostings(L.postings, doc_id),
        doc_len |-> MapDel(L.doc_len, doc_id),
        doc_terms |-> MapDel(L.doc_terms, doc_id),
        total_len |-> saturating_sub(L.total_len, L.doc_len[doc_id]),
        docs |-> L.docs \ {doc_id}]

\* Faulty variant of BM25Remove: the posting lists keep the document.
BM25Remove_KeepPostings(L, doc_id) ==
  IF doc_id \notin L.docs THEN L
  ELSE [postings |-> L.postings,
        doc_len |-> MapDel(L.doc_len, doc_id),
        doc_terms |-> MapDel(L.doc_terms, doc_id),
        total_len |-> saturating_sub(L.total_len, L.doc_len[doc_id]),
        docs |-> L.docs \ {doc_id}]

\* Faulty variant of BM25Remove: total_len is left as it was.
BM25Remove_KeepTotal(L, doc_id) ==
  IF doc_id \notin L.docs THEN L
  ELSE [postings |-> RemovePostings(L.postings, doc_id, L.doc_terms[doc_id]),
        doc_len |-> MapDel(L.doc_len, doc_id),
        doc_terms |-> MapDel(L.doc_terms, doc_id),
        total_len |-> L.total_len,
        docs |-> L.docs \ {doc_id}]

BM25Remove(L, doc_id) ==
  IF doc_id \notin L.docs THEN L
  ELSE [postings |-> IF doc_id \in DOMAIN L.doc_terms
                     THEN RemovePostings(L.postings, doc_id, L.doc_terms[doc_id])
                     ELSE ScrubPostings(L.postings, doc_id),
        doc_len |-> MapDel(L.doc_len, doc_id),
        doc_terms |-> MapDel(L.doc_terms, doc_id),
        total_len |-> IF doc_id \in DOMAIN L.doc_len
                      THEN saturating_sub(L.total_len, L.doc_len[doc_id])
                      ELSE L.total_len,
        docs |-> L.docs \ {doc_id}]

(***************************************************************************)
(* BM25Index::top_k (lib.rs 94-126).  Scores are in micro units.           *)
(***************************************************************************)
K1Num == 3
K1Den == 2
BNum == 3
BDen == 4
AvgdlFloorDen == 10000
DenomFloorInv == 1000000000

\* q_terms of lines 96-100: the query's terms, first occurrences only.
RECURSIVE Dedup(_, _)
Dedup(terms, out) ==
  IF terms = <<>> THEN out
  ELSE IF terms[1] \in Range(out) THEN Dedup(Tail(terms), out)
       ELSE Dedup(Tail(terms), Append(out, terms[1]))

QTerms(query) == Dedup(tokenize(query), <<>>)

\* ln(p / q) in micro units, for the arguments 1 + (N - df + 0.5) / (df + 0.5)
\* = (2N + 2) / (2df + 1) that up to three documents produce.
LnMicro(p, q) ==
  CASE p = 4 /\ q = 3 -> 287682
    [] p = 4 /\ q = 5 -> -223144
    [] p = 4 /\ q = 7 -> -559616
    [] p = 6 /\ q = 3 -> 693147
    [] p = 6 /\ q = 5 -> 182322
    [] p = 6 /\ q = 7 -> -154151
    [] p = 8 /\ q = 3 -> 980829
    [] p = 8 /\ q = 5 -> 470004
    [] p = 8 /\ q = 7 -> 133531

NDocs(L) == Max(1, Cardinality(L.docs))

\* avgdl of line 103 as the fraction <<numerator, denominator>>.
Avgdl(L) ==
  IF L.total_len > 0 THEN <<L.total_len, NDocs(L)>> ELSE <<1, AvgdlFloorDen>>

\* idf of line 109.
Idf(L, term) ==
  LnMicro(2 * NDocs(L) + 2, 2 * Cardinality(DOMAIN L.postings[term]) + 1)

\* Faulty variant of Base: the length term is subtracted, k1 * (1 - b - b * dl / avgdl).
Base_MinusLength(L, doc_id) ==
  LET dl == IF doc_id \in DOMAIN L.doc_len THEN L.doc_len[doc_id] ELSE 0
      a == Avgdl(L)
  IN <<K1Num * ((BDen - BNum) * a[1] - BNum * dl * a[2]), K1Den * BDen * a[1]>>

\* base of lines 112-115, k1 * (1 - b + b * dl / avgdl), as a fraction.
Base(L, doc_id) ==
  LET dl == IF doc_id \in DOMAIN L.doc_len THEN L.doc_len[doc_id] ELSE 0
      a == Avgdl(L)
  IN <<K1Num * ((BDen - BNum) * a[1] + BNum * dl * a[2]), K1Den * BDen * a[1]>>

\* s of lines 116-117 for one term and one document of its posting list.
TermScore(L, term, doc_id) ==
  LET tf == L.postings[term][doc_id]
      base == Base(L, doc_id)
      denomNum == tf * base[2] + base[1]
      multNum == Idf(L, term) * (K1Num + K1Den)
  IN IF denomNum = 0
     THEN (multNum * tf * DenomFloorInv) \div K1Den
     ELSE (multNum * tf * base[2]) \div (K1Den * denomNum)

RECURSIVE SumScores(_, _, _, _)
SumScores(L, terms, doc_id, acc) ==
  IF terms = <<>> THEN acc
  ELSE LET t == terms[1]
           hit == t \in DOMAIN L.postings /\ doc_id \in DOMAIN L.postings[t]
       IN SumScores(L, Tail(terms), doc_id,
                    IF hit THEN acc + TermScore(L, t, doc_id) ELSE acc)

\* The scores map of lines 104-120.
Scores(L, q_terms) ==
  LET hits == UNION {DOMAIN L.postings[t] : t \in Range(q_terms) \cap DOMAIN L.postings}
  IN [d \in hits |-> SumScores(L, q_terms, d, 0)]

\* Lines 122-125.  The pairs come out of a hash map in any order and the sort
\* is stable, so documents with equal scores come in any order: the results
\* are the sequences of n distinct scored documents, sorted by descending
\* score, that leave out no document scoring more than one they hold.
TopOf(scores, n) ==
  {r \in [1..n -> DOMAIN scores] :
     /\ \A i, j \in 1..n : i < j => r[i] # r[j] /\ scores[r[i]] >= scores[r[j]]
     /\ \A d \in (DOMAIN scores) \ Range(r) : \A i \in 1..n : scores[r[i]] >= scores[d]}

Pairs(scores, r) == [i \in DOMAIN r |-> <<r[i], scores[r[i]]>>]

\* The set of results top_k can return.
BM25TopK(L, query, top_k) ==
  IF top_k = 0 \/ L.docs = {} THEN {<<>>}
  ELSE LET q_terms == QTerms(query)
       IN IF q_terms = <<>> THEN {<<>>}
          ELSE LET scores == Scores(L, q_terms)
                   n == IF Cardinality(DOMAIN scores) > top_k THEN top_k
                        ELSE Cardinality(DOMAIN scores)
               IN {Pairs(scores, r) : r \in TopOf(scores, n)}

(***************************************************************************)
(* normalize_vec (lib.rs 25-33).  A component after normalisation is       *)
(* [n |-> x, sq |-> sumsq], standing for x / sqrt(sumsq); 0 * inv is 0.    *)
(***************************************************************************)
ZeroCell == [n |-> 0, sq |-> 1]
Cell(x, sumsq) == IF x = 0 THEN ZeroCell ELSE [n |-> x, sq |-> sumsq]

RECURSIVE SumSq(_)
SumSq(v) == IF v = <<>> THEN 0 ELSE v[1] * v[1] + SumSq(Tail(v))

normalize_vec(v) ==
  LET sumsq == SumSq(v)
  IN IF sumsq > 0 THEN [i \in DOMAIN v |-> Cell(v[i], sumsq)]
     ELSE [i \in DOMAIN v |-> Cell(v[i], 1)]

\* tmp.resize(dim, 0.0) when tmp.len() < dim (lines 159, 168, 194).
PadTo(v, dim) ==
  IF Len(v) < dim THEN [i \in 1..dim |-> IF i <= Len(v) THEN v[i] ELSE 0] ELSE v

(***************************************************************************)
(* VectorIndex (lib.rs 129-224).  data is the flat buffer: len floats, of  *)
(* which cells holds the ones written so far (the others are 0.0).         *)
(* Rows and offsets are 0-based as in the source; ids[r + 1] is row r.     *)
(***************************************************************************)
InitialCapacity == 1024

VectorNew ==
  [dim |-> 0, data |-> [len |-> 0, cells |-> EmptyMap], ids |-> <<>>,
   id_to_row |-> EmptyMap]

ReadData(data, i) == IF i \in DOMAIN data.cells THEN data.cells[i] ELSE ZeroCell

RECURSIVE GrowCap(_, _)
GrowCap(cap, need) == IF cap < need THEN GrowCap(cap * 2, need) ELSE cap

ensure_capacity(V, rows, dim) ==
  LET newdim == IF V.dim = 0 THEN dim ELSE V.dim
      need == rows * newdim
      cap == IF V.data.len = 0 THEN InitialCapacity ELSE V.data.len
  IN IF need <= V.data.len
     THEN [V EXCEPT !.dim = newdim]
     ELSE [V EXCEPT !.dim = newdim, !.data.len = GrowCap(cap, need)]

\* for i in 0..dim { data[off + i] = tmp[i]; } (lines 161, 170)
StoreRow(data, off, dim, tmp) ==
  [data EXCEPT !.cells =
     [j \in (DOMAIN data.cells) \cup {off + i : i \in 0..(dim - 1)} |->
        IF j >= off /\ j < off + dim THEN tmp[j - off + 1] ELSE data.cells[j]]]

\* lines 158-160 and 167-169: copy, pad, normalise.
Prepared(vec, dim) == normalize_vec(PadTo(vec, dim))

VecAdd(V, id, vec) ==
  LET d == IF V.dim = 0 THEN Len(vec) ELSE V.dim
      V1 == ensure_capacity(V, Len(V.ids) + 1, d)
      row == Len(V.ids)
      off == row * V1.dim
  IN [dim |-> V1.dim,
      data |-> StoreRow(V1.data, off, V1.dim, Prepared(vec, V1.dim)),
      ids |-> Append(V.ids, id),
      id_to_row |-> MapPut(V.id_to_row, id, row)]

\* Faulty variant of VecUpdate: an unknown id is not added.
VecUpdate_KnownOnly(V, id, vec) ==
  IF id \in DOMAIN V.id_to_row
  THEN LET off == V.id_to_row[id] * V.dim
       IN [V EXCEPT !.data = StoreRow(V.data, off, V.dim, Prepared(vec, V.dim))]
  ELSE V

VecUpdate(V, id, vec) ==
  IF id \in DOMAIN V.id_to_row
  THEN LET off == V.id_to_row[id] * V.dim
       IN [V EXCEPT !.data = StoreRow(V.data, off, V.dim, Prepared(vec, V.dim))]
  ELSE VecAdd(V, id, vec)

\* for i in 0..dim { data[dst + i] = data[src + i]; } (line 184)
CopyRow(data, src, dst, dim) ==
  StoreRow(data, dst, dim, [i \in 1..dim |-> ReadData(data, src + i - 1)])

\* Faulty variant of VecRemove: the moved id keeps its old row in id_to_row.
VecRemove_NoRemap(V, id) ==
  IF id \notin DOMAIN V.id_to_row THEN V
  ELSE LET row == V.id_to_row[id]
           last == Len(V.ids) - 1
           ids1 == IF row # last THEN [V.ids EXCEPT ![row + 1] = V.ids[last + 1]]
                   ELSE V.ids
           data1 == IF row # last THEN CopyRow(V.data, last * V.dim, row * V.dim, V.dim)
                    ELSE V.data
       IN [dim |-> V.dim,
           data |-> data1,
           ids |-> SubSeq(ids1, 1, last),
           id_to_row |-> MapDel(V.id_to_row, id)]

\* Faulty variant of VecRemove: for an id without a row the last row is popped.
VecRemove_NoGuard(V, id) ==
  IF id \notin DOMAIN V.id_to_row
  THEN [V EXCEPT !.ids = IF V.ids = <<>> THEN <<>> ELSE SubSeq(V.ids, 1, Len(V.ids) - 1)]
  ELSE LET row == V.id_to_row[id]
           last == Len(V.ids) - 1
           moved == V.ids[last + 1]
           ids1 == IF row # last THEN [V.ids EXCEPT ![row + 1] = moved] ELSE V.ids
           map1 == IF row # last THEN MapPut(V.id_to_row, moved, row) ELSE V.id_to_row
           data1 == IF row # last THEN CopyRow(V.data, last * V.dim, row * V.dim, V.dim)
                    ELSE V.data
       IN [dim |-> V.dim,
           data |-> data1,
           ids |-> SubSeq(ids1, 1, last),
           id_to_row |-> MapDel(map1, id)]

\* Faulty variant of VecRemove: the moved id takes the row, the stored
\* vector is not copied.
VecRemove_NoCopy(V, id) ==
  IF id \notin DOMAIN V.id_to_row THEN V
  ELSE LET row == V.id_to_row[id]
           last == Len(V.ids) - 1
           moved == V.ids[last + 1]
           ids1 == IF row # last THEN [V.ids EXCEPT ![row + 1] = moved] ELSE V.ids
           map1 == IF row # last THEN MapPut(V.id_to_row, moved, row) ELSE V.id_to_row
       IN [dim |-> V.dim,
           data |-> V.data,
           ids |-> SubSeq(ids1, 1, last),
           id_to_row |-> MapDel(map1, id)]

VecRemove(V, id) ==
  IF id \notin DOMAIN V.id_to_row THEN V
  ELSE LET row == V.id_to_row[id]
           last == Len(V.ids) - 1
           moved == V.ids[last + 1]
           ids1 == IF row # last THEN [V.ids EXCEPT ![row + 1] = moved] ELSE V.ids
           map1 == IF row # last THEN MapPut(V.id_to_row, moved, row) ELSE V.id_to_row
           data1 == IF row # last THEN CopyRow(V.data, last * V.dim, row * V.dim, V.dim)
                    ELSE V.data
       IN [dim |-> V.dim,
           data |-> data1,
           ids |-> SubSeq(ids1, 1, last),
           id_to_row |-> MapDel(map1, id)]

\* The stored row r of V, as the sequence of its dim components.
RowOf(V, r) == [i \in 1..V.dim |-> ReadData(V.data, r * V.dim + i - 1)]

(***************************************************************************)
(* VectorIndex::top_k (lib.rs 190-223).  An inner product of a stored row  *)
(* with the normalised query is [num |-> a, sq |-> b], standing for        *)
(* a / sqrt(b): the components of a row carry one common sumsq, and so do  *)
(* those of the query.                                                     *)
(***************************************************************************)
CommonSq(cells) ==
  IF \E i \in DOMAIN cells : cells[i].n # 0
  THEN cells[CHOOSE i \in DOMAIN cells : cells[i].n # 0].sq
  ELSE 1

RECURSIVE DotNum(_, _, _)
DotNum(row, q, i) ==
  IF i > Len(row) THEN 0 ELSE row[i].n * q[i].n + DotNum(row, q, i + 1)

\* dot of lines 201-211 (the 4-way unrolled loop and its tail add the same
\* products in the same order).
Dot(V, r, q) ==
  LET row == RowOf(V, r)
  IN [num |-> DotNum(row, q, 1), sq |-> CommonSq(row) * CommonSq(q)]

\* x < y for x = a / sqrt(b), y = c / sqrt(d): compare sgn(a) a^2 d with sgn(c) c^2 b.
SignedSq(a) == IF a < 0 THEN 0 - a * a ELSE a * a
DotLess(x, y) == SignedSq(x.num) * y.sq < SignedSq(y.num) * x.sq

\* A stable sort, as sort_by is: e goes before the first element that the
\* order puts strictly after it.  DotLess is the order on the scores.
RECURSIVE InsertAsc(_, _)
InsertAsc(sorted, e) ==
  IF sorted = <<>> THEN <<e>>
  ELSE IF DotLess(e[2], sorted[1][2]) THEN <<e>> \o sorted
       ELSE <<sorted[1]>> \o InsertAsc(Tail(sorted), e)

RECURSIVE SortAsc(_, _)
SortAsc(s, acc) == IF s = <<>> THEN acc ELSE SortAsc(Tail(s), InsertAsc(acc, s[1]))

RECURSIVE InsertDesc(_, _)
InsertDesc(sorted, e) ==
  IF sorted = <<>> THEN <<e>>
  ELSE IF DotLess(sorted[1][2], e[2]) THEN <<e>> \o sorted
       ELSE <<sorted[1]>> \o InsertDesc(Tail(sorted), e)

RECURSIVE SortDesc(_, _)
SortDesc(s, acc) == IF s = <<>> THEN acc ELSE SortDesc(Tail(s), InsertDesc(acc, s[1]))

\* The loop of lines 199-219 from row on: heap holds <<row, dot>> pairs in
\* ascending order of dot.
RECURSIVE Scan(_, _, _, _, _)
Scan(V, q, k, row, heap) ==
  IF row >= Len(V.ids) THEN heap
  ELSE LET dot == Dot(V, row, q)
       IN IF Len(heap) < k
          THEN Scan(V, q, k, row + 1, SortAsc(Append(heap, <<row, dot>>), <<>>))
          ELSE IF DotLess(heap[1][2], dot)
               THEN Scan(V, q, k, row + 1,
                         SortAsc([heap EXCEPT ![1] = <<row, dot>>], <<>>))
               ELSE Scan(V, q, k, row + 1, heap)

\* Faulty variant of VecTopK: the first k rows, never replacing the minimum.
VecTopK_FirstK(V, query_vec, k) ==
  IF k = 0 \/ V.ids = <<>> THEN <<>>
  ELSE LET q == normalize_vec(PadTo(query_vec, V.dim))
           n == IF k < Len(V.ids) THEN k ELSE Len(V.ids)
           out == [i \in 1..n |-> <<V.ids[i], Dot(V, i - 1, q)>>]
       IN SortDesc(out, <<>>)

VecTopK(V, query_vec, k) ==
  IF k = 0 \/ V.ids = <<>> THEN <<>>
  ELSE LET q == normalize_vec(PadTo(query_vec, V.dim))
           heap == Scan(V, q, k, 0, <<>>)
           out == [i \in DOMAIN heap |-> <<V.ids[heap[i][1] + 1], heap[i][2]>>]
       IN SortDesc(out, <<>>)

(***************************************************************************)
(* SearchIndex (lib.rs 226-312): the three mutations as functions of the   *)
(* pair (L, V) guarded by the mutex.                                       *)
(***************************************************************************)
Core(L, V) == [bm25 |-> L, vectors |-> V]

SearchIndexNew == Core(BM25New, VectorNew)

add_doc(c, id, bm25_text, embedding) ==
  Core(BM25Add(c.bm25, id, bm25_text), VecAdd(c.vectors, id, embedding))

\* Faulty variant of update_doc: L.add without the L.remove before it.
update_doc_NoRemove(c, id, bm25_text, embedding) ==
  Core(BM25Add(c.bm25, id, bm25_text), VecUpdate(c.vectors, id, embedding))

update_doc(c, id, bm25_text, embedding) ==
  Core(BM25Add(BM25Remove(c.bm25, id), id, bm25_text),
       VecUpdate(c.vectors, id, embedding))

\* Faulty variant of remove_doc: the vector side keeps the row.
remove_doc_LOnly(c, id) == Core(BM25Remove(c.bm25, id), c.vectors)

remove_doc(c, id) == Core(BM25Remove(c.bm25, id), VecRemove(c.vectors, id))

\* bm25_top_k (lines 276-284): the results the call can return.
bm25_top_k(c, query, k) == BM25TopK(c.bm25, query, k)

\* knn_top_k (lines 286-295).
knn_top_k(c, query_vec, k) == VecTopK(c.vectors, query_vec, k)

\* Lines 302-309: the ids of bm, then those of knn, each on its first occurrence.
RECURSIVE FirstIds(_, _)
FirstIds(pairs, out) ==
  IF pairs = <<>> THEN out
  ELSE IF pairs[1][1] \in Range(out) THEN FirstIds(Tail(pairs), out)
       ELSE FirstIds(Tail(pairs), Append(out, pairs[1][1]))

\* Faulty variant of union_candidates: the ids of knn come first.
union_candidates_KnnFirst(c, query, query_vec, bm25_k, knn_k) ==
  {FirstIds(bm, FirstIds(VecTopK(c.vectors, query_vec, knn_k), <<>>)) :
     bm \in BM25TopK(c.bm25, query, bm25_k)}

\* union_candidates (lines 297-311): the results the call can return.
union_candidates(c, query, query_vec, bm25_k, knn_k) ==
  {FirstIds(VecTopK(c.vectors, query_vec, knn_k), FirstIds(bm, <<>>)) :
     bm \in BM25TopK(c.bm25, query, bm25_k)}

(***************************************************************************)
(* State.  bm25 and vectors are the two fields of SearchIndexCore.  hist   *)
(* and lastOp record the calls made so far: whether add_doc was ever       *)
(* called with an id that L (reAddL) or V (reAddV) held at the time, which *)
(* ids were removed and not added or updated since, the first insertion    *)
(* into V, and the most recent call with whether its id was indexed when   *)
(* it was made.                                                            *)
(***************************************************************************)
NoOp == [op |-> "new", id |-> "", text |-> <<>>, vec |-> <<>>, had |-> FALSE]

InL(c, id) == id \in c.bm25.docs
InV(c, id) == id \in Range(c.vectors.ids) \/ id \in DOMAIN c.vectors.id_to_row
Indexed(c, id) == InL(c, id) \/ InV(c, id)

Cur == Core(bm25, vectors)

\* No call made yet.  inserted: some call has appended a row to V (every
\* add_doc, and update_doc of an id without a row); firstLen: the length of
\* the embedding of the first such call.
HistNew ==
  [reAddL |-> FALSE, reAddV |-> FALSE, removed |-> {}, inserted |-> FALSE,
   firstLen |-> 0]

\* hist after a call that appends a row for an embedding vec.
Inserted(h, vec) ==
  IF h.inserted THEN h ELSE [h EXCEPT !.inserted = TRUE, !.firstLen = Len(vec)]

Init ==
  /\ bm25 = SearchIndexNew.bm25
  /\ vectors = SearchIndexNew.vectors
  /\ hist = HistNew
  /\ lastOp = NoOp
  /\ mutex = "free"
  /\ pc = <<>>
  /\ req = <<>>
  /\ seqL = BM25New
  /\ seqV = VectorNew
  /\ obs = <<>>

Idle == UNCHANGED <<mutex, pc, req, seqL, seqV, obs>>

\* The model stops growing counters that the source leaves unbounded.
WithinBounds(c) ==
  /\ Len(c.vectors.ids) <= MaxRows
  /\ c.bm25.total_len <= MaxTotalLen

Called(op, id, text, vec) ==
  [op |-> op, id |-> id, text |-> text, vec |-> vec, had |-> Indexed(Cur, id)]

\* The call add_doc(id, text, vec).
AddDocCall(id, text, vec) ==
  LET c == add_doc(Cur, id, text, vec)
  IN /\ bm25' = c.bm25
     /\ vectors' = c.vectors
     /\ hist' = [Inserted(hist, vec) EXCEPT
                   !.reAddL = hist.reAddL \/ InL(Cur, id),
                   !.reAddV = hist.reAddV \/ InV(Cur, id),
                   !.removed = hist.removed \ {id}]
     /\ lastOp' = Called("add_doc", id, text, vec)
     /\ Idle

\* add_doc(id, text, vec), taken while the index it gives fits the bounds.
AddDoc(id, text, vec) ==
  WithinBounds(add_doc(Cur, id, text, vec)) /\ AddDocCall(id, text, vec)

\* The call update_doc(id, text, vec).
UpdateDocCall(id, text, vec) ==
  LET c == update_doc(Cur, id, text, vec)
  IN /\ bm25' = c.bm25
     /\ vectors' = c.vectors
     /\ hist' = [(IF id \in DOMAIN vectors.id_to_row THEN hist ELSE Inserted(hist, vec))
                   EXCEPT !.removed = @ \ {id}]
     /\ lastOp' = Called("update_doc", id, text, vec)
     /\ Idle

\* update_doc(id, text, vec), taken while the index it gives fits the bounds.
UpdateDoc(id, text, vec) ==
  WithinBounds(update_doc(Cur, id, text, vec)) /\ UpdateDocCall(id, text, vec)

RemoveDoc(id) ==
  LET c == remove_doc(Cur, id)
  IN /\ bm25' = c.bm25
     /\ vectors' = c.vectors
     /\ hist' = [hist EXCEPT !.removed = @ \cup {id}]
     /\ lastOp' = Called("remove_doc", id, <<>>, <<>>)
     /\ Idle

\* One step of the index: a call of one of the three mutations, with its
\* text drawn from T and its embedding from E.
NextOn(T, E) ==
  \/ \E id \in Ids, text \in T, vec \in E : AddDoc(id, text, vec)
  \/ \E id \in Ids, text \in T, vec \in E : UpdateDoc(id, text, vec)
  \/ \E id \in Ids : RemoveDoc(id)

\* Both sub-indexes with a few texts and embeddings.
Next == NextOn(FewTexts, FewVecs)
Spec == Init /\ [][Next]_vars

\* Texts of no, one and two terms, one of them twice, and one embedding: the
\* BM25 side.
NextL == NextOn(Texts, {<<1>>})
SpecL == Init /\ [][NextL]_vars

\* Every embedding up to MaxVecLen, one text: the vector side.
NextV == NextOn({<<"a">>}, Vecs)
SpecV == Init /\ [][NextV]_vars

\* Texts with no term and with two, the empty embedding and one of length 1:
\* both sub-indexes, with the calls that leave one of them without the id.
MixTexts == {<<" ">>, <<"a", ",", "b">>}
MixVecs == {<<>>, <<1>>}
NextMix == NextOn(MixTexts, MixVecs)
SpecMix == Init /\ [][NextMix]_vars

\* Embeddings of length 1 and 2 with components of both signs, one text: the
\* rows that kNN scores apart.
KnnVecs == {<<1>>, <<0 - 1>>, <<1, 1>>}
NextKnn == NextOn({<<"a">>}, KnnVecs)
SpecKnn == Init /\ [][NextKnn]_vars

\* Three documents of one to five terms: two that hold the term a with
\* different frequencies and lengths, and a third without it.  add_doc is
\* called only with an id that is not indexed.
RankMaxRows == 3
RankMaxTotal == 8
RankIds == {"d1", "d2", "d3"}
RankTexts ==
  {<<"a">>, <<"a", " ", "b">>, <<"a", " ", "a", " ", "b", " ", "b", " ", "b">>,
   <<"b">>, <<"b", " ", "b">>}
RankVec == <<1>>

RankBounds(c) ==
  /\ Len(c.vectors.ids) <= RankMaxRows
  /\ c.bm25.total_len <= RankMaxTotal

NextRank ==
  \/ \E id \in RankIds, text \in RankTexts :
       /\ ~Indexed(Cur, id)
       /\ RankBounds(add_doc(Cur, id, text, RankVec))
       /\ AddDocCall(id, text, RankVec)
  \/ \E id \in RankIds, text \in RankTexts :
       /\ RankBounds(update_doc(Cur, id, text, RankVec))
       /\ UpdateDocCall(id, text, RankVec)
  \/ \E id \in RankIds : RemoveDoc(id)

SpecRank == Init /\ [][NextRank]_vars

\* Three ids with embeddings that differ, add_doc only of an id that is not
\* indexed: the rows that remove moves.
NextSwap ==
  \/ \E id \in RankIds, vec \in KnnVecs :
       /\ ~Indexed(Cur, id)
       /\ RankBounds(add_doc(Cur, id, <<"a">>, vec))
       /\ AddDocCall(id, <<"a">>, vec)
  \/ \E id \in RankIds, vec \in KnnVecs :
       /\ RankBounds(update_doc(Cur, id, <<"a">>, vec))
       /\ UpdateDocCall(id, <<"a">>, vec)
  \/ \E id \in RankIds : RemoveDoc(id)

SpecSwap == Init /\ [][NextSwap]_vars

(***************************************************************************)
(* Concurrent callers.  Every method of SearchIndex starts with            *)
(* self.core.lock().unwrap() and holds the guard g until it returns, so a  *)
(* call is: wait for the mutex, run its steps on L and V one after the     *)
(* other, release.  seqL and seqV are the index of the sequential          *)
(* execution in lock-acquisition order: a call is applied to them in one   *)
(* step at the moment it acquires the mutex.                               *)
(***************************************************************************)
Threads == {"t1", "t2"}

NoObs == [bm |-> <<>>, knn |-> <<>>, out |-> <<>>]

Request(op, id, text, vec, k) == [op |-> op, id |-> id, text |-> text, vec |-> vec, k |-> k]

ConcTexts == {<<"a">>}
ConcVec == <<1>>
ConcK == 2

Requests ==
  {Request(op, id, text, ConcVec, 0) :
     op \in {"add_doc", "update_doc"}, id \in Ids, text \in ConcTexts}
  \cup {Request("remove_doc", id, <<>>, <<>>, 0) : id \in Ids}
  \cup {Request("bm25_top_k", "", <<"a">>, <<>>, ConcK),
        Request("knn_top_k", "", <<>>, ConcVec, ConcK),
        Request("union_candidates", "", <<"a">>, ConcVec, ConcK)}

Mutations == {"add_doc", "update_doc", "remove_doc"}

\* The statements of each method between taking the guard and returning.
Program(op) ==
  CASE op = "add_doc" -> <<"L.add", "V.add">>
    [] op = "update_doc" -> <<"L.remove", "L.add", "V.update">>
    [] op = "remove_doc" -> <<"L.remove", "V.remove">>
    [] op = "bm25_top_k" -> <<"L.top_k">>
    [] op = "knn_top_k" -> <<"V.top_k">>
    [] op = "union_candidates" -> <<"L.top_k", "V.top_k", "merge">>

\* The label after label at in the program of op.
After(op, at) ==
  LET prog == Program(op)
      i == CHOOSE j \in DOMAIN prog : prog[j] = at
  IN IF i = Len(prog) THEN "unlock" ELSE prog[i + 1]

InitConc ==
  /\ bm25 = SearchIndexNew.bm25
  /\ vectors = SearchIndexNew.vectors
  /\ hist = HistNew
  /\ lastOp = NoOp
  /\ mutex = "free"
  /\ pc = [t \in Threads |-> "idle"]
  /\ req = [t \in Threads |-> Request("none", "", <<>>, <<>>, 0)]
  /\ seqL = BM25New
  /\ seqV = VectorNew
  /\ obs = [t \in Threads |-> NoObs]

SeqCore == Core(seqL, seqV)

\* The sequential effect of a request on the index.
Apply(c, r) ==
  CASE r.op = "add_doc" -> add_doc(c, r.id, r.text, r.vec)
    [] r.op = "update_doc" -> update_doc(c, r.id, r.text, r.vec)
    [] r.op = "remove_doc" -> remove_doc(c, r.id)
    [] OTHER -> c

\* A thread calls a method: it will wait for the mutex.
Call(t, r) ==
  /\ pc[t] = "idle"
  /\ pc' = [pc EXCEPT ![t] = "lock"]
  /\ req' = [req EXCEPT ![t] = r]
  /\ obs' = [obs EXCEPT ![t] = NoObs]
  /\ UNCHANGED <<bm25, vectors, hist, lastOp, mutex, seqL, seqV>>

\* Faulty variant of CanLock: the lock is granted whoever holds it.
CanLock_Always(t) == TRUE

\* lock() returns to thread t when no thread holds the mutex.
CanLock(t) == mutex = "free"

Lock(t) ==
  /\ pc[t] = "lock"
  /\ CanLock(t)
  /\ WithinBounds(Apply(SeqCore, req[t]))
  /\ mutex' = t
  /\ pc' = [pc EXCEPT ![t] = Program(req[t].op)[1]]
  /\ seqL' = Apply(SeqCore, req[t]).bm25
  /\ seqV' = Apply(SeqCore, req[t]).vectors
  /\ UNCHANGED <<bm25, vectors, hist, lastOp, req, obs>>

\* One statement of the method that thread t runs.
Step(t) ==
  LET r == req[t]
      at == pc[t]
  IN /\ at \notin {"idle", "lock", "unlock"}
     /\ pc' = [pc EXCEPT ![t] = After(r.op, at)]
     /\ bm25' = CASE at = "L.add" -> BM25Add(bm25, r.id, r.text)
                  [] at = "L.remove" -> BM25Remove(bm25, r.id)
                  [] OTHER -> bm25
     /\ vectors' = CASE at = "V.add" -> VecAdd(vectors, r.id, r.vec)
                     [] at = "V.update" -> VecUpdate(vectors, r.id, r.vec)
                     [] at = "V.remove" -> VecRemove(vectors, r.id)
                     [] OTHER -> vectors
     /\ CASE at = "L.top_k" ->
               \E bm \in BM25TopK(bm25, r.text, r.k) : obs' = [obs EXCEPT ![t].bm = bm]
          [] at = "V.top_k" ->
               obs' = [obs EXCEPT ![t].knn = VecTopK(vectors, r.vec, r.k)]
          [] at = "merge" ->
               obs' = [obs EXCEPT ![t].out = FirstIds(obs[t].knn, FirstIds(obs[t].bm, <<>>))]
          [] OTHER -> obs' = obs
     /\ UNCHANGED <<hist, lastOp, mutex, req, seqL, seqV>>

\* The method returns and its guard is dropped.
Unlock(t) ==
  /\ pc[t] = "unlock"
  /\ mutex' = IF mutex = t THEN "free" ELSE mutex
  /\ pc' = [pc EXCEPT ![t] = "idle"]
  /\ UNCHANGED <<bm25, vectors, hist, lastOp, req, seqL, seqV, obs>>

NextConc ==
  \/ \E t \in Threads, r \in Requests : Call(t, r)
  \/ \E t \in Threads : Lock(t)
  \/ \E t \in Threads : Step(t)
  \/ \E t \in Threads : Unlock(t)

SpecConc == InitConc /\ [][NextConc]_vars

(***************************************************************************)
(* Properties.                                                             *)
(***************************************************************************)
SumDocLen(L) == SumOver(L.doc_len, L.docs)

\* C1 as stated: after every operation of any sequence of add_doc, update_doc
\* and remove_doc calls, total_len is the sum of doc_len[d] over d in docs.
C1_TotalLenIsSum == bm25.total_len = SumDocLen(bm25)

\* C1 amended: total_len is the sum of doc_len[d] over d in docs after every
\* operation of a sequence in which add_doc was never called with an id that
\* L held at the time of the call.
C1_TotalLenIsSum_NoReAdd == ~hist.reAddL => C1_TotalLenIsSum

\* Two documents indexed, the second written by an update of an indexed id.
C1_Witness ==
  /\ ~hist.reAddL
  /\ lastOp.op = "update_doc" /\ lastOp.had
  /\ Cardinality(bm25.docs) = 2
  /\ bm25.total_len = 3

IdRowInverse(V) ==
  /\ Len(V.ids) = Cardinality(DOMAIN V.id_to_row)
  /\ \A r \in 0..(Len(V.ids) - 1) :
       V.ids[r + 1] \in DOMAIN V.id_to_row /\ V.id_to_row[V.ids[r + 1]] = r

\* C2 as stated: after every operation of any sequence of calls, ids and
\* id_to_row are mutually inverse: they have the same size and
\* id_to_row[ids[r]] = r for every row r.
C2_IdRowInverse == IdRowInverse(vectors)

\* C2 amended: ids and id_to_row are mutually inverse after every operation
\* of a sequence in which add_doc was never called with an id that V held at
\* the time of the call.
C2_IdRowInverse_NoReAdd == ~hist.reAddV => C2_IdRowInverse

\* d1 was removed from below d2: the row of d2 moved to row 0.
C2_Witness ==
  /\ ~hist.reAddV
  /\ lastOp.op = "remove_doc" /\ lastOp.id = "d1" /\ lastOp.had
  /\ vectors.ids = <<"d2">>
  /\ vectors.dim > 0 /\ vectors.dim \in DOMAIN vectors.data.cells

\* The ids of a result of bm25_top_k or knn_top_k.
IdsOf(pairs) == {pairs[i][1] : i \in DOMAIN pairs}

\* Some query returns id on index c.
Found(c, id) ==
  \/ \E q \in Queries, k \in Ks : \E r \in bm25_top_k(c, q, k) : id \in IdsOf(r)
  \/ \E v \in QueryVecs, k \in Ks : id \in IdsOf(knn_top_k(c, v, k))
  \/ \E q \in Queries, v \in QueryVecs, bk \in Ks, kk \in Ks :
       \E r \in union_candidates(c, q, v, bk, kk) : id \in Range(r)

\* C3 as stated: from remove_doc(id) until the next add_doc or update_doc of
\* id, no query returns id, whatever calls preceded the remove.
C3_RemovedNeverReturned == \A id \in hist.removed : ~Found(Cur, id)

\* C3 amended: from remove_doc(id) until the next add_doc or update_doc of
\* id, no query returns id, provided add_doc was never called with an id that
\* V held at the time of the call.
C3_RemovedNeverReturned_NoReAdd == ~hist.reAddV => C3_RemovedNeverReturned

\* An indexed d1 was just removed; d2 is still returned by a query.
C3_Witness ==
  /\ ~hist.reAddV
  /\ lastOp.op = "remove_doc" /\ lastOp.id = "d1" /\ lastOp.had
  /\ "d1" \in hist.removed
  /\ "d2" \in bm25.docs /\ "d2" \in Range(vectors.ids)
  /\ Found(Cur, "d2")

\* Texts with at least one term, non-empty embeddings, and add_doc only of an
\* id that is not indexed: the calls the spec defines.
RegularTexts == {t \in Queries : tokenize(t) # <<>>}
RegularVecs == {v \in Vecs : v # <<>>}

NextRegular ==
  \/ \E id \in Ids, text \in RegularTexts, vec \in RegularVecs :
       ~Indexed(Cur, id) /\ AddDoc(id, text, vec)
  \/ \E id \in Ids, text \in RegularTexts, vec \in RegularVecs : UpdateDoc(id, text, vec)
  \/ \E id \in Ids : RemoveDoc(id)

SpecRegular == Init /\ [][NextRegular]_vars

\* The stored rows of V with their ids, whatever the row order.
StoredRows(V) == {<<V.ids[r + 1], RowOf(V, r)>> : r \in 0..(Len(V.ids) - 1)}

SameIndex(c1, c2) ==
  /\ c1.bm25 = c2.bm25
  /\ c1.vectors.dim = c2.vectors.dim
  /\ StoredRows(c1.vectors) = StoredRows(c2.vectors)

\* C4: for every id present in the index, every text t and embedding v,
\* update_doc(id, t, v) gives the same BM25 state and the same vector state
\* (dim and the (id, row) pairs, up to row order) as remove_doc(id) followed
\* by add_doc(id, t, v).
C4_UpdateEquivalence ==
  \A id \in Ids : InL(Cur, id) /\ InV(Cur, id) =>
    \A t \in FewTexts, v \in FewVecs :
      SameIndex(update_doc(Cur, id, t, v), add_doc(remove_doc(Cur, id), id, t, v))

TermsOf(text) == Range(tokenize(text))
Occurrences(text, term) ==
  Cardinality({i \in DOMAIN tokenize(text) : tokenize(text)[i] = term})

\* The posting lists mention id for exactly the terms of text, with their counts.
PostingsExactly(L, id, text) ==
  /\ \A t \in DOMAIN L.postings : id \in DOMAIN L.postings[t] => t \in TermsOf(text)
  /\ \A t \in TermsOf(text) :
       /\ t \in DOMAIN L.postings
       /\ id \in DOMAIN L.postings[t]
       /\ L.postings[t][id] = Occurrences(text, t)

\* C5 as stated: after update_doc(id, text, v), in any reachable state, the
\* posting lists mention id for exactly the terms of tokenize(text), each
\* with its number of occurrences.
C5_UpdateReplacesPostings ==
  lastOp.op = "update_doc" => PostingsExactly(bm25, lastOp.id, lastOp.text)

\* C5 amended: after update_doc(id, text, v), the posting lists mention id
\* for exactly the terms of tokenize(text), each with its number of
\* occurrences, provided add_doc was never called with an id that L held at
\* the time of the call.
C5_UpdateReplacesPostings_NoReAdd == ~hist.reAddL => C5_UpdateReplacesPostings

\* An indexed document was updated to a text that holds one term twice.
C5_Witness ==
  /\ ~hist.reAddL
  /\ lastOp.op = "update_doc" /\ lastOp.had
  /\ \E t \in TermsOf(lastOp.text) : Occurrences(lastOp.text, t) = 2
  /\ Cardinality(DOMAIN bm25.postings) = 1

\* C6: in a sequence of calls whose texts all have a term, whose embeddings
\* are all non-empty and whose add_doc calls are all of ids not indexed, the
\* ids of L.docs, of V.ids and of V.id_to_row are the same set after each
\* operation, and the three have the same size.
C6_SameIds ==
  /\ bm25.docs = Range(vectors.ids)
  /\ bm25.docs = DOMAIN vectors.id_to_row
  /\ Cardinality(bm25.docs) = Len(vectors.ids)
  /\ Len(vectors.ids) = Cardinality(DOMAIN vectors.id_to_row)

\* Both ids indexed, the second one entered through update_doc.
C6_Witness ==
  /\ lastOp.op = "update_doc" /\ ~lastOp.had
  /\ Cardinality(bm25.docs) = 2

\* C8: after every operation of any sequence of calls, every term that is a
\* key of postings has a non-empty posting list.
C8_NoEmptyPostingList == \A t \in DOMAIN bm25.postings : DOMAIN bm25.postings[t] # {}

\* An indexed document was removed and took its last term out of postings,
\* while a term of the other document stays.
C8_Witness ==
  /\ lastOp.op = "remove_doc" /\ lastOp.had
  /\ Cardinality(bm25.docs) = 1
  /\ Cardinality(DOMAIN bm25.postings) = 1
  /\ <<"a">> \notin DOMAIN bm25.postings

PostedIds(L) == UNION {DOMAIN L.postings[t] : t \in DOMAIN L.postings}

\* C9 as stated: in every reachable state every id of a posting list is in
\* docs, so df <= N for every term and the smoothed IDF is never negative.
C9_PostedIdsIndexed ==
  /\ PostedIds(bm25) \subseteq bm25.docs
  /\ \A t \in DOMAIN bm25.postings :
       /\ Cardinality(DOMAIN bm25.postings[t]) <= NDocs(bm25)
       /\ Idf(bm25, t) >= 0

\* C9 amended: every id of a posting list is in docs, df <= N for every term
\* and the smoothed IDF is never negative, in every state reached without a
\* call of add_doc with an id that L held at the time of the call.
C9_PostedIdsIndexed_NoReAdd == ~hist.reAddL => C9_PostedIdsIndexed

\* A term that every document holds (df = N = 2), after an update of an
\* indexed document.
C9_Witness ==
  /\ ~hist.reAddL
  /\ lastOp.op = "update_doc" /\ lastOp.had
  /\ Cardinality(bm25.docs) = 2
  /\ \E t \in DOMAIN bm25.postings : DOMAIN bm25.postings[t] = bm25.docs

\* The squared L2 norm of a stored row is 1: its components n_i / sqrt(sq)
\* have sum of n_i^2 equal to sq.
RECURSIVE SumN2(_)
SumN2(row) == IF row = <<>> THEN 0 ELSE row[1].n * row[1].n + SumN2(Tail(row))
IsZeroRow(row) == \A i \in DOMAIN row : row[i].n = 0
IsUnitRow(row) == SumN2(row) = CommonSq(row)

\* The first dim components of vec (padded with zeros when shorter).
FirstDim(vec, dim) == SubSeq(PadTo(vec, dim), 1, dim)

\* C10: every row stored by add or update is the zero vector or has L2 norm 1,
\* and the row stored for vec is the unit-normalisation of the first dim
\* components of vec, whatever the components at index >= dim.  Stated for
\* the sequences the spec defines (no add_doc of an id that V holds), where
\* every row of ids is the row that the last add or update of its id stored.
C10_StoredRowsUnit ==
  ~hist.reAddV =>
  /\ \A r \in 0..(Len(vectors.ids) - 1) :
       IsZeroRow(RowOf(vectors, r)) \/ IsUnitRow(RowOf(vectors, r))
  /\ (lastOp.op \in {"add_doc", "update_doc"} /\ lastOp.id \in DOMAIN vectors.id_to_row) =>
       RowOf(vectors, vectors.id_to_row[lastOp.id])
         = normalize_vec(FirstDim(lastOp.vec, vectors.dim))

InCall(t) == pc[t] \notin {"idle", "lock"}

\* What a query that has run to its end returned is a result of the same
\* query on the sequential index.
SequentialResult(t) ==
  LET r == req[t]
  IN CASE r.op = "bm25_top_k" -> obs[t].bm \in bm25_top_k(SeqCore, r.text, r.k)
       [] r.op = "knn_top_k" -> obs[t].knn = knn_top_k(SeqCore, r.vec, r.k)
       [] r.op = "union_candidates" ->
            obs[t].out \in union_candidates(SeqCore, r.text, r.vec, r.k, r.k)
       [] OTHER -> TRUE

\* C7: with concurrent callers, at most one call runs at a time; a call
\* starts from, and a query reads, the index that the calls before it in
\* lock-acquisition order produce, never a state in the middle of another
\* call; and each call ends in the index, with the result, of the sequential
\* execution in lock-acquisition order.
C7_CallsAreAtomic ==
  /\ \A t, u \in Threads : (InCall(t) /\ InCall(u)) => t = u
  /\ mutex = "free" => Cur = SeqCore
  /\ \A t \in Threads :
       /\ (InCall(t) /\ req[t].op \notin Mutations) => Cur = SeqCore
       /\ pc[t] = "unlock" => (Cur = SeqCore /\ SequentialResult(t))

\* One thread is between the L.remove and the L.add of an update_doc of an
\* indexed id while another waits for the mutex with a query.
C7_Witness ==
  \E t, u \in Threads :
    /\ pc[t] = "L.add" /\ req[t].op = "update_doc"
    /\ bm25 # seqL
    /\ req[t].id \in seqL.docs /\ req[t].id \notin bm25.docs
    /\ pc[u] = "lock" /\ req[u].op = "union_candidates"

\* C11: dim is 0 until the first insertion into V, is the length of the
\* first inserted embedding from that insertion on, and never changes again,
\* whatever the lengths (0 included) of the embeddings of the calls.  Stated
\* for the sequences the spec defines (no add_doc of an id that V holds).
C11_DimFixedByFirst ==
  ~hist.reAddV => vectors.dim = (IF hist.inserted THEN hist.firstLen ELSE 0)

\* The call that led to the next state was add_doc or update_doc with a text
\* that tokenizes to no terms.
EmptyTextCall ==
  /\ lastOp'.op \in {"add_doc", "update_doc"}
  /\ tokenize(lastOp'.text) = <<>>

\* After the call, V holds a row for its id: the one that add and update
\* compute from its embedding.
RecordsEmbedding ==
  /\ lastOp'.id \in Range(vectors'.ids)
  /\ lastOp'.id \in DOMAIN vectors'.id_to_row
  /\ RowOf(vectors', vectors'.id_to_row[lastOp'.id])
       = SubSeq(Prepared(lastOp'.vec, vectors'.dim), 1, vectors'.dim)

\* C12 as stated: add_doc and update_doc with a text that tokenizes to no
\* terms leave postings, doc_len, doc_terms, docs and total_len unchanged and
\* V records the embedding, also when update_doc is of an id that L holds.
C12_EmptyTextLeavesL ==
  [][EmptyTextCall => (bm25' = bm25 /\ RecordsEmbedding)]_vars

\* C12 amended: with a text that tokenizes to no terms, add_doc leaves the
\* BM25 state unchanged and update_doc leaves it as L.remove of the id leaves
\* it (unchanged exactly when L did not hold the id); V records the embedding.
C12_EmptyTextLeavesL_UpdateRemoves ==
  [][EmptyTextCall =>
       /\ bm25' = (IF lastOp'.op = "add_doc" THEN bm25 ELSE BM25Remove(bm25, lastOp'.id))
       /\ RecordsEmbedding]_vars

\* An indexed id was updated with a text without terms while the other
\* document is in L: the id has a row in V and L does not hold it.
C12_Witness ==
  /\ lastOp.op = "update_doc" /\ lastOp.had
  /\ tokenize(lastOp.text) = <<>>
  /\ ~hist.reAddL /\ ~hist.reAddV
  /\ lastOp.id \in DOMAIN vectors.id_to_row
  /\ lastOp.id \notin bm25.docs
  /\ Cardinality(bm25.docs) = 1 /\ Len(vectors.ids) = 2

\* C13: in every reachable state and for every id, present or absent,
\* remove_doc(id) twice leaves exactly the L and V state that remove_doc(id)
\* once leaves, and remove_doc of an id absent from both sub-indexes changes
\* nothing.
C13_RemoveIdempotent ==
  \A id \in Ids :
    /\ remove_doc(remove_doc(Cur, id), id) = remove_doc(Cur, id)
    /\ (id \notin bm25.docs /\ id \notin DOMAIN vectors.id_to_row) => remove_doc(Cur, id) = Cur

\* d1, held by L and V below the row of d2, was just removed: the row of d2
\* moved, and d1 is now absent from both.
C13_Witness ==
  /\ lastOp.op = "remove_doc" /\ lastOp.id = "d1" /\ lastOp.had
  /\ bm25.docs = {"d2"} /\ bm25.total_len = 2
  /\ vectors.ids = <<"d2">> /\ vectors.dim = 1
  /\ "d1" \notin DOMAIN vectors.id_to_row

\* The position of the first pair of id in a result of a top_k.
FirstPos(pairs, id) == CHOOSE i \in DOMAIN pairs : pairs[i][1] = id /\ \A j \in 1..(i - 1) : pairs[j][1] # id

\* out is the union of the results bm and knn: no id twice, exactly the ids
\* of bm and knn, the ids of bm first in the order of bm, then the ids of knn
\* alone in the order in which knn first lists them.
IsUnionOf(out, bm, knn) ==
  /\ \A i, j \in DOMAIN out : i # j => out[i] # out[j]
  /\ Range(out) = IdsOf(bm) \cup IdsOf(knn)
  /\ Len(out) >= Len(bm)
  /\ \A i \in DOMAIN bm : out[i] = bm[i][1]
  /\ \A i \in (Len(bm) + 1)..Len(out) :
       /\ out[i] \notin IdsOf(bm)
       /\ \A j \in (i + 1)..Len(out) : FirstPos(knn, out[i]) < FirstPos(knn, out[j])

\* The queries of C14: no term, a term, two terms; a query vector that scores
\* every row 0 and one that scores the rows apart; k of none, one and MaxK.
UnionQueries == {<<>>, <<"a">>, <<"a", " ", "B">>}
UnionVecs == {<<>>, <<1>>}
UnionKs == {0, 1, MaxK}

\* C14: in every reachable state and for every query, query vector, bm25_k
\* and knn_k, the list union_candidates returns holds each id at most once,
\* holds exactly the ids that bm25 top_k or knn top_k return on that state,
\* lists the BM25 ids first in BM25 rank order and every id that only kNN
\* produced after them, in kNN rank order.
C14_UnionOrdering ==
  \A q \in UnionQueries, v \in UnionVecs, bk \in UnionKs, kk \in UnionKs :
    \A out \in union_candidates(Cur, q, v, bk, kk) :
      \E bm \in bm25_top_k(Cur, q, bk) : IsUnionOf(out, bm, knn_top_k(Cur, v, kk))

\* d1 is returned by BM25 and by kNN, d2 by kNN alone and ranked first
\* there: the union is d1, d2.
C14_Witness ==
  \E q \in UnionQueries, v \in UnionVecs :
    /\ {IdsOf(bm) : bm \in bm25_top_k(Cur, q, MaxK)} = {{"d1"}}
    /\ Len(knn_top_k(Cur, v, MaxK)) = 2
    /\ knn_top_k(Cur, v, MaxK)[1][1] = "d2"
    /\ knn_top_k(Cur, v, MaxK)[2][1] = "d1"
    /\ union_candidates(Cur, q, v, MaxK, MaxK) = {<<"d1", "d2">>}

\* The score of document d for the query that is the one term t.
ScoreOf(L, t, d) == Scores(L, <<t>>)[d]

\* d1 and d2 are indexed, both hold t, and d1 scores higher for the query t.
RanksAbove(L, t, d1, d2) ==
  /\ d1 \in L.docs /\ d2 \in L.docs
  /\ t \in DOMAIN L.postings
  /\ d1 \in DOMAIN L.postings[t] /\ d2 \in DOMAIN L.postings[t]
  /\ ScoreOf(L, t, d1) > ScoreOf(L, t, d2)

\* The index after add_doc of a document that is not indexed and whose text
\* does not hold t.
AddedWithout(t) ==
  {add_doc(Cur, id, text, RankVec).bm25 :
     id \in {i \in RankIds : ~Indexed(Cur, i)},
     text \in {x \in RankTexts : t \notin TermsOf(x)}}

\* C15 as stated: if d1 scores higher than d2 for the query t, both holding
\* t, then d1 still scores higher than d2 after add_doc of a new document
\* whose text does not hold t, whatever the lengths and term frequencies.
C15_RankingMonotone ==
  \A t \in DOMAIN bm25.postings, d1 \in RankIds, d2 \in RankIds :
    RanksAbove(bm25, t, d1, d2) =>
      \A L2 \in AddedWithout(t) : RanksAbove(L2, t, d1, d2)

\* d1 holds t at least as often as d2 and is not longer than d2.
Dominates(L, t, d1, d2) ==
  /\ L.postings[t][d1] >= L.postings[t][d2]
  /\ L.doc_len[d1] <= L.doc_len[d2]

\* C15 amended: if d1 scores higher than d2 for the query t, both holding t,
\* d1 holds t at least as often as d2 and d1 is not longer than d2, then d1
\* still scores higher than d2 after add_doc of a new document whose text
\* does not hold t (in an index where add_doc was never called with an
\* indexed id).
C15_RankingMonotone_Dominating ==
  ~hist.reAddL =>
    \A t \in DOMAIN bm25.postings, d1 \in RankIds, d2 \in RankIds :
      (RanksAbove(bm25, t, d1, d2) /\ Dominates(bm25, t, d1, d2)) =>
        \A L2 \in AddedWithout(t) : RanksAbove(L2, t, d1, d2)

\* d1 and d2 hold a once each, d1 is the shorter and scores higher, and a
\* document without a can be added that changes the average length.
C15_Witness ==
  LET t == <<"a">>
  IN /\ ~hist.reAddL
     /\ RanksAbove(bm25, t, "d1", "d2")
     /\ Dominates(bm25, t, "d1", "d2")
     /\ bm25.doc_len["d1"] < bm25.doc_len["d2"]
     /\ \E L2 \in AddedWithout(t) :
          /\ L2.total_len * NDocs(bm25) # bm25.total_len * NDocs(L2)
          /\ RanksAbove(L2, t, "d1", "d2")

\* Every stored row of V with its id and its inner product with the
\* normalised query, in row order.
AllScored(V, query_vec) ==
  LET q == normalize_vec(PadTo(query_vec, V.dim))
  IN [i \in 1..Len(V.ids) |-> <<V.ids[i], Dot(V, i - 1, q)>>]

SameScore(x, y) == ~DotLess(x, y) /\ ~DotLess(y, x)

Min(a, b) == IF a <= b THEN a ELSE b

\* res is a top-k of the rows of V: min(k, rows) pairs in non-increasing
\* order of score, each the id and score of a row, with the scores that
\* scoring every row, sorting descending and taking the first k gives.
IsTopK(res, V, query_vec, k) ==
  LET all == AllScored(V, query_vec)
      n == Min(k, Len(V.ids))
      best == SubSeq(SortDesc(all, <<>>), 1, n)
  IN /\ Len(res) = n
     /\ \A i \in 1..(n - 1) : ~DotLess(res[i][2], res[i + 1][2])
     /\ \A i \in 1..n : SameScore(res[i][2], best[i][2])
     /\ \A i \in 1..n : \E r \in DOMAIN all : all[r] = res[i]
     /\ \A r \in DOMAIN all : \A i \in 1..n :
          DotLess(res[i][2], all[r][2]) =>
            Cardinality({j \in DOMAIN all : DotLess(res[i][2], all[j][2])}) < i

KnnQueryVecs == {<<>>, <<1>>, <<0 - 1>>, <<1, 1>>}

SwapAndPopFrame(V, V2, id) ==
  /\ id \notin Range(V2.ids)
  /\ id \notin DOMAIN V2.id_to_row
  /\ Len(V2.ids) = Len(V.ids) - (IF id \in DOMAIN V.id_to_row THEN 1 ELSE 0)
  /\ \A o \in RankIds \ {id} :
       /\ (o \in DOMAIN V2.id_to_row) = (o \in DOMAIN V.id_to_row)
       /\ (o \in Range(V2.ids)) = (o \in Range(V.ids))
       /\ o \in DOMAIN V.id_to_row =>
            /\ V2.ids[V2.id_to_row[o] + 1] = o
            /\ RowOf(V2, V2.id_to_row[o]) = RowOf(V, V.id_to_row[o])
            /\ V2.id_to_row[o] # V.id_to_row[o] => V.id_to_row[o] = Len(V.ids) - 1

\* C17: in a state reached without add_doc of an indexed id, remove_doc(id)
\* removes id from ids and id_to_row, takes exactly one row away when id was
\* present, and leaves to every other id its membership and its stored
\* vector; only the former last row may change its index.
C17_SwapAndPopFrame ==
  [][(lastOp'.op = "remove_doc" /\ ~hist.reAddV) =>
       SwapAndPopFrame(vectors, vectors', lastOp'.id)]_vars

\* d1 was removed from row 0 below d2 and d3: d3, the last row, moved to row
\* 0 with a vector that differs from that of d2.
C17_Witness ==
  /\ ~hist.reAddV
  /\ lastOp.op = "remove_doc" /\ lastOp.id = "d1" /\ lastOp.had
  /\ vectors.ids = <<"d3", "d2">>
  /\ RowOf(vectors, 0) # RowOf(vectors, 1)

\* The BM25 states that one call of add_doc, update_doc or remove_doc gives
\* from a state of S (the L side of a call does not depend on the V side).
AfterOneCall(S) ==
  {add_doc(Core(L, VectorNew), id, text, <<1>>).bm25 : L \in S, id \in Ids, text \in Texts}
  \cup {update_doc(Core(L, VectorNew), id, text, <<1>>).bm25 : L \in S, id \in Ids, text \in Texts}
  \cup {remove_doc(Core(L, VectorNew), id).bm25 : L \in S, id \in Ids}

\* The BM25 states that sequences of at most n calls give from those of S.
RECURSIVE AfterCalls(_, _)
AfterCalls(S, n) == IF n = 0 THEN S ELSE AfterCalls(S \cup AfterOneCall(S), n - 1)

MaxCalls == 4

\* bm25 top_k on L would take avgdl from the 0.0001 floor: docs is not empty
\* (line 95) and total_len is 0 (line 103).
UsesAvgdlFloor(L) == L.docs # {} /\ L.total_len = 0

\* C18 as stated: some sequence of add_doc, update_doc and remove_doc calls
\* (here of at most MaxCalls further calls, from the new index on) reaches a
\* state in which docs is not empty and total_len is 0.
C18_FloorStateReachable ==
  \E L \in AfterCalls({bm25}, MaxCalls) : UsesAvgdlFloor(L)

\* C18 amended: no sequence of add_doc, update_doc and remove_doc calls
\* reaches a state in which docs is not empty and total_len is 0: every
\* document of docs counts at least one token in total_len, and bm25 top_k
\* never takes avgdl from the floor.
C18_FloorStateUnreachable ==
  /\ ~UsesAvgdlFloor(bm25)
  /\ bm25.total_len >= Cardinality(bm25.docs)

\* A document whose text gave no token was just added: V holds it, L holds
\* only the other document, of one token.
C18_Witness ==
  /\ lastOp.op = "add_doc" /\ ~lastOp.had
  /\ tokenize(lastOp.text) = <<>>
  /\ Len(vectors.ids) = 2
  /\ Cardinality(bm25.docs) = 1
  /\ bm25.total_len = 1

\* C19: in every reachable state total_len is at least the sum of doc_len[d]
\* over d in docs, so for every document remove could be called on, total_len
\* is at least doc_len[d] and remove leaves the exact difference: the
\* saturating subtraction never clamps.
C19_SubNeverClamps ==
  /\ bm25.total_len >= SumDocLen(bm25)
  /\ \A d \in bm25.docs :
        /\ d \in DOMAIN bm25.doc_len
        /\ bm25.total_len >= bm25.doc_len[d]
        /\ BM25Remove(bm25, d).total_len = bm25.total_len - bm25.doc_len[d]

\* After a remove_doc call on an index in which add_doc of an indexed id has
\* counted a document twice, one document is left, and removing it leaves
\* the exact difference, which is positive.
C19_Witness ==
  /\ lastOp.op = "remove_doc" /\ lastOp.had
  /\ hist.reAddL
  /\ \E d \in bm25.docs :
        /\ bm25.docs = {d}
        /\ bm25.total_len > bm25.doc_len[d]
        /\ BM25Remove(bm25, d).total_len = bm25.total_len - bm25.doc_len[d]

====
